---- MODULE Spec2Model ----
(***************************************************************************)
(* Byte-level model of scripts/strip_metadata.py: format detection, the    *)
(* JPEG segment walker and the PNG chunk walker.  Buffers are sequences of *)
(* bytes (0..255); cursors are 0-based as in the Python source.            *)
(***************************************************************************)
EXTENDS Integers, Sequences, FiniteSets, TLC

VARIABLES data, layout, cut, pass, first, img_type, pos, output, pc, exit, error

vars == <<data, layout, cut, pass, first, img_type, pos, output, pc, exit, error>>

(* ------------------------------ bounds --------------------------------- *)
MaxPieces == 3
MaxCut == 2

(* ------------------------- Python primitives --------------------------- *)
Min(a, b) == IF a < b THEN a ELSE b

\* d[i] with a 0-based index (caller guarantees i < len(d))
At(d, i) == d[i + 1]

\* d[a:b]: Python slicing clamps both ends to len(d)
Slice(d, a, b) == SubSeq(d, Min(a, Len(d)) + 1, Min(b, Len(d)))

\* d.startswith(p)
StartsWith(d, p) == Len(d) >= Len(p) /\ SubSeq(d, 1, Len(p)) = p

\* struct.unpack('>H', b)[0]
U16(b) == b[1] * 256 + b[2]

\* struct.unpack('>I', b)[0]
U32(b) == ((b[1] * 256 + b[2]) * 256 + b[3]) * 256 + b[4]

(* --------------------------- format constants -------------------------- *)
SOI == <<255, 216>>
\* the end-of-image marker emitted as the start-of-image one
EOI_as_SOI == <<255, 216>>

EOI == <<255, 217>>
png_sig == <<137, 80, 78, 71, 13, 10, 26, 10>>

\* APP1 (Exif) listed in place of APP0 (JFIF)
essential_markers_app1 == {192, 193, 194, 195, 196, 219, 221, 218, 225}

essential_markers == {192, 193, 194, 195, 196, 219, 221, 218, 224}

\* marker == 0x01 or (0xd0 <= marker <= 0xd7)
NoLengthMarker(m) == m = 1 \/ (208 <= m /\ m <= 215)

IHDR == <<73, 72, 68, 82>>
IDAT == <<73, 68, 65, 84>>
PLTE == <<80, 76, 84, 69>>
tRNS == <<116, 82, 78, 83>>
IEND == <<73, 69, 78, 68>>
pHYs == <<112, 72, 89, 115>>
gAMA == <<103, 65, 77, 65>>
cHRM == <<99, 72, 82, 77>>
sRGB == <<115, 82, 71, 66>>

essential == {IHDR, IDAT, PLTE, tRNS, IEND, pHYs, gAMA, cHRM, sRGB}

\* pos += 12 + length
PngNextPos(p, length) == p + 12 + length

\* the cursor moved over the 0xFF byte only
JpegAfterMarker_one(p) == p + 1

\* pos += 2 after reading the marker byte
JpegAfterMarker(p) == p + 2

\* pos += length
JpegAfterSegment(p, length) == p + length

\* the tail copied from one byte too far
SosTail_skip(d, p) == Slice(d, p + 1, Len(d))

\* output.extend(data[pos:]) after SOS
SosTail(d, p) == Slice(d, p, Len(d))

\* detect_image_type: header = f.read(8)
detect_image_type(d) ==
  LET header == Slice(d, 0, 8) IN
  IF StartsWith(header, SOI) THEN "jpeg"
  ELSE IF StartsWith(header, png_sig) THEN "png"
  ELSE "unsupported"

(* ------------------------------ inputs --------------------------------- *)
\* A JPEG segment: 0xFF, marker code, 2-byte big-endian declared length, payload
Seg(m, L, payload) == <<255, m, L \div 256, L % 256>> \o payload

\* A PNG chunk: 4-byte length, 4-byte type, payload, 4-byte CRC.  The bytes of
\* PNG inputs stay below 127 so that a length field read at any offset, plus
\* the cursor, stays within the integers the checker can represent (Python
\* integers are unbounded, so the source has no wrap-around to model).
Chunk(T, payload) == <<0, 0, 0, Len(payload)>> \o T \o payload \o <<18, 52, 86, 120>>

tEXt == <<116, 69, 88, 116>>
zTXt == <<122, 84, 88, 116>>
iTXt == <<105, 84, 88, 116>>
tIME == <<116, 73, 77, 69>>
eXIf == <<101, 88, 73, 102>>

JpegPieces ==
  { Seg(225, 3, <<255>>), Seg(219, 3, <<218>>),
    Seg(192, 0, <<>>), Seg(192, 1, <<>>), Seg(254, 0, <<>>),
    Seg(218, 2, <<>>), Seg(218, 0, <<>>), Seg(218, 4, <<170>>),
    <<255, 217>>, <<255, 208>>, <<170>>, <<255, 225>> }

PngPieces ==
  { Chunk(IHDR, <<85>>), Chunk(IDAT, <<85>>), Chunk(IDAT, <<>>),
    Chunk(IEND, <<>>), Chunk(tEXt, <<85>>), Chunk(tIME, <<>>),
    <<0, 0, 1, 0>> \o IDAT, <<85>> }

OtherPieces == { <<255>>, <<216, 255>>, <<137, 80, 78, 71>>, <<0>> }

PiecesFor(pre) ==
  IF pre = SOI THEN JpegPieces ELSE IF pre = png_sig THEN PngPieces ELSE OtherPieces

SeqsUpTo(S, n) == UNION { [1..k -> S] : k \in 0..n }

WideTypes ==
  essential \cup { tEXt, zTXt, iTXt, tIME, eXIf, <<105, 72, 68, 82>>, <<73, 68, 65, 116>>,
                   <<0, 0, 0, 0>> }

\* every marker code once, followed by SOS, scan data and EOI;
\* every chunk type of interest once, between IHDR and IEND
WideLayouts ==
  { <<SOI, Seg(m, 3, <<170>>), Seg(218, 2, <<>>), <<170, 255, 225>>, <<255, 217>>>> : m \in 0..255 }
  \cup { <<png_sig, Chunk(IHDR, <<85>>), Chunk(T, <<85>>), Chunk(IEND, <<>>)>> : T \in WideTypes }

Layouts ==
  WideLayouts \cup
  UNION { { <<pre>> \o ps : ps \in SeqsUpTo(PiecesFor(pre), MaxPieces) } :
          pre \in { <<>>, SOI, png_sig } }

RECURSIVE Flatten(_)
Flatten(ps) == IF ps = <<>> THEN <<>> ELSE Head(ps) \o Flatten(Tail(ps))

(* ------------------------------- state --------------------------------- *)
Init ==
  /\ layout \in Layouts
  /\ cut \in 0..Min(MaxCut, Len(Flatten(layout)))
  /\ data = SubSeq(Flatten(layout), 1, Len(Flatten(layout)) - cut)
  /\ pass = 1
  /\ first = <<>>
  /\ img_type = "none"
  /\ pos = 0
  /\ output = <<>>
  /\ pc = "detect"
  /\ exit = "none"
  /\ error = "none"

(* ------------------------------ actions -------------------------------- *)
\* strip_metadata: img_type = detect_image_type(input_file)
Detect ==
  /\ pc = "detect"
  /\ LET t == detect_image_type(data) IN
       IF t = "unsupported"
       THEN /\ pc' = "failed"
            /\ error' = "UnsupportedFormat"
            /\ UNCHANGED img_type
       ELSE /\ pc' = "open"
            /\ img_type' = t
            /\ UNCHANGED error
  /\ UNCHANGED <<data, layout, cut, pass, first, pos, output, exit>>

\* strip_jpeg_metadata up to the loop: signature check, SOI emitted, pos = 2
JpegOpen ==
  /\ pc = "open"
  /\ img_type = "jpeg"
  /\ IF ~StartsWith(data, SOI)
     THEN /\ pc' = "failed"
          /\ error' = "InvalidJpegSignature"
          /\ UNCHANGED <<output, pos>>
     ELSE /\ output' = SOI
          /\ pos' = 2
          /\ pc' = "jpeg"
          /\ UNCHANGED error
  /\ UNCHANGED <<data, layout, cut, pass, first, img_type, exit>>

\* strip_png_metadata up to the loop: signature check, signature emitted, pos = 8
PngOpen ==
  /\ pc = "open"
  /\ img_type = "png"
  /\ IF ~StartsWith(data, png_sig)
     THEN /\ pc' = "failed"
          /\ error' = "InvalidPngSignature"
          /\ UNCHANGED <<output, pos>>
     ELSE /\ output' = png_sig
          /\ pos' = 8
          /\ pc' = "png"
          /\ UNCHANGED error
  /\ UNCHANGED <<data, layout, cut, pass, first, img_type, exit>>

\* the loop is left: the output is written and the sizes returned
Finish(how, p, out) ==
  /\ pc' = "done"
  /\ exit' = how
  /\ pos' = p
  /\ output' = out
  /\ UNCHANGED error

\* the iteration ends and the loop condition is tested again
Continue(next, p, out) ==
  /\ pc' = next
  /\ pos' = p
  /\ output' = out
  /\ UNCHANGED <<exit, error>>

\* an uncaught exception leaves the function; nothing is written
Raise(e) ==
  /\ pc' = "failed"
  /\ error' = e
  /\ UNCHANGED <<pos, output, exit>>

\* one test of `while pos < len(data)` and one iteration of the JPEG loop
JpegStep ==
  /\ pc = "jpeg"
  /\ IF ~(pos < Len(data)) THEN Finish("loop_end", pos, output)
     ELSE IF At(data, pos) # 255 THEN Finish("not_marker", pos, output)
     ELSE IF ~(pos + 1 < Len(data)) THEN Raise("IndexError")
     ELSE
       LET marker == At(data, pos + 1)
           p2 == JpegAfterMarker(pos)
       IN IF marker = 217 THEN Finish("eoi", p2, output \o EOI)
          ELSE IF NoLengthMarker(marker) THEN Continue("jpeg", p2, output \o <<255, marker>>)
          ELSE IF p2 + 2 > Len(data) THEN Finish("short_length", p2, output)
          ELSE
            LET length == U16(Slice(data, p2, p2 + 2))
                out1 == IF marker \in essential_markers
                        THEN output \o <<255, marker>> \o Slice(data, p2, p2 + length)
                        ELSE output
                p3 == JpegAfterSegment(p2, length)
            IN IF marker = 218
               THEN Finish("sos", p3, out1 \o SosTail(data, p3))
               ELSE Continue("jpeg", p3, out1)
  /\ UNCHANGED <<data, layout, cut, pass, first, img_type>>

\* one test of `while pos < len(data)` and one iteration of the PNG loop
PngStep ==
  /\ pc = "png"
  /\ IF ~(pos < Len(data)) THEN Finish("loop_end", pos, output)
     ELSE IF pos + 8 > Len(data) THEN Finish("short_header", pos, output)
     ELSE
       LET length == U32(Slice(data, pos, pos + 4))
           chunk_type == Slice(data, pos + 4, pos + 8)
           chunk_end == pos + 12 + length
           out1 == IF chunk_type \in essential
                   THEN output \o Slice(data, pos, chunk_end)
                   ELSE output
           p2 == PngNextPos(pos, length)
       IN IF chunk_type = IEND
          THEN Finish("iend", p2, out1)
          ELSE Continue("png", p2, out1)
  /\ UNCHANGED <<data, layout, cut, pass, first, img_type>>

\* the written output file is given to strip_metadata again
Restrip ==
  /\ pc = "done"
  /\ pass = 1
  /\ pass' = 2
  /\ first' = output
  /\ data' = output
  /\ img_type' = "none"
  /\ pos' = 0
  /\ output' = <<>>
  /\ pc' = "detect"
  /\ exit' = "none"
  /\ UNCHANGED <<layout, cut, error>>

Next == Detect \/ JpegOpen \/ PngOpen \/ JpegStep \/ PngStep \/ Restrip

Spec == Init /\ [][Next]_vars

\* the program is sequential: whatever step is enabled is eventually taken
FairSpec == Spec /\ WF_vars(Next)

Terminated == pc \in {"done", "failed"}

(* ------------------- vocabulary of the properties ---------------------- *)
\* the bytes of d from 0-based offset p to the end of the buffer
Suffix(d, p) == SubSeq(d, p + 1, Len(d))

\* the value of a big-endian length field, written out digit by digit
BE2(p, i) == p[i] * 256 + p[i + 1]
BE4(p, i) == p[i] * 16777216 + p[i + 1] * 65536 + p[i + 2] * 256 + p[i + 3]

\* marker codes that carry a length field (all but EOI, TEM and RST0-RST7)
LengthPrefixed(m) == m \notin ({217, 1} \cup (208..215))

\* a piece that is one JPEG segment, fully present, with declared length >= 2
IsFullSeg(p) ==
  /\ Len(p) >= 4
  /\ p[1] = 255
  /\ LengthPrefixed(p[2])
  /\ BE2(p, 3) >= 2
  /\ Len(p) = 2 + BE2(p, 3)

\* a piece that is one PNG chunk with payload and CRC
IsChunk(p) == Len(p) >= 12 /\ Len(p) = 12 + BE4(p, 1)

ChunkType(p) == SubSeq(p, 5, 8)

\* the allow-lists as the specification states them
SpecMarkers == (192..195) \cup {196, 219, 221, 218, 224}
SpecTypes ==
  { <<73, 72, 68, 82>>, <<73, 68, 65, 84>>, <<80, 76, 84, 69>>, <<116, 82, 78, 83>>,
    <<73, 69, 78, 68>>, <<112, 72, 89, 115>>, <<103, 65, 77, 65>>, <<99, 72, 82, 77>>,
    <<115, 82, 71, 66>> }

\* number of bytes of the input taken by the first k pieces of the layout
Upto(k) == Len(Flatten(SubSeq(layout, 1, k)))

\* the input is SOI, full segments with L >= 2, then a full SOS at piece k
SosAt(k) ==
  /\ k \in 2..Len(layout)
  /\ layout[1] = SOI
  /\ \A j \in 2..k : IsFullSeg(layout[j])
  /\ \A j \in 2..(k - 1) : layout[j][2] # 218
  /\ layout[k][2] = 218
  /\ Upto(k) <= Len(data)

JpegWellFormed == \E k \in 1..Len(layout) : SosAt(k)

KeptSeg(p) == p[2] \in SpecMarkers

\* the input is the signature followed by whole chunks (the last possibly cut)
PngChunked ==
  /\ layout[1] = png_sig
  /\ \A j \in 2..Len(layout) : IsChunk(layout[j])

\* index of the last piece the PNG walk is meant to look at
LastChunk ==
  LET iends == { j \in 2..Len(layout) : ChunkType(layout[j]) = <<73, 69, 78, 68>> } IN
  IF iends = {} THEN Len(layout)
  ELSE CHOOSE j \in iends : \A i \in iends : j <= i

\* a chunk of the input that is wholly inside the buffer and meant to be kept
KeptChunk(j) == ChunkType(layout[j]) \in SpecTypes /\ Upto(j) <= Len(data)

\* SOI, the segments before the SOS at piece k that are on the allow-list, and
\* everything from that SOS marker on
ExpectedJpeg(k) ==
  SOI \o Flatten([j \in 1..(k - 2) |-> IF KeptSeg(layout[j + 1]) THEN layout[j + 1] ELSE <<>>])
      \o Suffix(data, Upto(k - 1))

\* bytes of the segments before piece k that are not on the allow-list
DroppedJpeg(k) ==
  Len(Flatten([j \in 1..(k - 2) |-> IF KeptSeg(layout[j + 1]) THEN <<>> ELSE layout[j + 1]]))

\* the signature and the whole chunks on the allow-list, up to the first IEND
ExpectedPng ==
  png_sig \o Flatten([j \in 1..(LastChunk - 1) |->
                        IF KeptChunk(j + 1) THEN layout[j + 1] ELSE <<>>])

\* bytes of the chunks that are not on the allow-list
DroppedPng ==
  Len(Flatten([j \in 1..(Len(layout) - 1) |->
                 IF ChunkType(layout[j + 1]) \in SpecTypes THEN <<>> ELSE layout[j + 1]]))

\* the output ends with a whole IEND chunk
EndsWithIend(o) ==
  \E L \in 0..Len(o) :
    /\ Len(o) >= 8 + 12 + L
    /\ BE4(o, Len(o) - (12 + L) + 1) = L
    /\ SubSeq(o, Len(o) - (12 + L) + 5, Len(o) - (12 + L) + 8) = <<73, 69, 78, 68>>

(* ------------------------------ claims --------------------------------- *)
\* a chunk header can be read at the cursor
HeaderAtCursor == pc = "png" /\ pos < Len(data) /\ pos + 8 <= Len(data)

\* C1: a PNG chunk whose declared length runs past the end of the buffer makes
\* the walk fail with TruncatedChunk; nothing is emitted and the walk does not succeed.
C1_TruncatedChunkFails ==
  [][(HeaderAtCursor /\ pos + 12 + BE4(data, pos + 1) > Len(data))
       => (pc' = "failed" /\ error' = "TruncatedChunk" /\ output' = output)]_vars

\* C2: every input shorter than 8 bytes ends in the UnsupportedFormat failure.
C2_ShortInputUnsupported ==
  (pass = 1 /\ Len(data) < 8 /\ Terminated) => (pc = "failed" /\ error = "UnsupportedFormat")

\* C3: stripping the output of a successful strip succeeds and returns it unchanged.
C3_Idempotent ==
  (pass = 2 /\ Terminated) => (pc = "done" /\ output = first)

\* the walker reads an SOS marker at the cursor
SosAtCursor ==
  /\ pc = "jpeg"
  /\ pos + 1 < Len(data)
  /\ At(data, pos) = 255
  /\ At(data, pos + 1) = 218

\* C4 (as stated): once the walker reaches an SOS marker, the output from its
\* SOS marker on is the input from that SOS marker on.
C4_SosTailVerbatim_Original ==
  [][SosAtCursor => (pc' = "done" /\ output' = output \o Suffix(data, pos))]_vars

\* C4 (amended): once the walker reaches an SOS marker whose 2-byte length field
\* is inside the buffer, the walk ends and the output from its SOS marker on is
\* the input from that SOS marker on, whatever the declared length.
C4_SosTailVerbatim ==
  [][(SosAtCursor /\ pos + 4 <= Len(data))
       => (pc' = "done" /\ exit' = "sos" /\ output' = output \o Suffix(data, pos))]_vars

\* C4 witness: a walk ended at SOS whose declared length runs past the buffer.
C4_Witness ==
  /\ pass = 1 /\ pc = "done" /\ exit = "sos"
  /\ pos > Len(data)
  /\ Len(output) > 6

\* C5: the PNG output is the signature and exactly the whole input chunks on the
\* allow-list up to the first IEND, in order; the size drops by the dropped chunks.
C5_PngOutputExact ==
  (pass = 1 /\ pc = "done" /\ PngChunked)
    => /\ output = ExpectedPng
       /\ (LastChunk = Len(layout) /\ cut = 0) => Len(output) = Len(data) - DroppedPng

\* C6: a successful PNG walk stopped at an IEND chunk and its output ends with
\* that whole IEND chunk.
C6_PngEndsAtIend ==
  (pass = 1 /\ pc = "done" /\ img_type = "png") => (exit = "iend" /\ EndsWithIend(output))

\* the JPEG walk returns in this step
JpegReturns == pc = "jpeg" /\ pc' = "done"

EndsAtEoi == exit' = "eoi" /\ output' = output \o <<255, 217>>

EndsAtSos == exit' = "sos" /\ SosAtCursor /\ output' = output \o Suffix(data, pos)

\* the cursor is at the end, at a byte that is no marker, or at a marker whose
\* length field is cut short; nothing is added to the output
EndsTolerant ==
  /\ exit' \in {"loop_end", "not_marker", "short_length"}
  /\ output' = output
  /\ \/ pos >= Len(data)
     \/ At(data, pos) # 255
     \/ pos + 4 > Len(data)

\* C7 (as stated): a returned JPEG output ends with the emitted EOI or with the
\* verbatim remainder copied from SOS on.
C7_JpegTerminalForm_Original ==
  [][JpegReturns => (EndsAtEoi \/ EndsAtSos)]_vars

\* C7 (amended): a returned JPEG output ends with the emitted EOI, or with the
\* verbatim remainder copied from SOS on, or is the output accumulated when the
\* walker stopped tolerantly.
C7_JpegTerminalForm ==
  [][JpegReturns => (EndsAtEoi \/ EndsAtSos \/ EndsTolerant)]_vars

\* C7 witness: a JPEG walk that returned at EOI after emitting a kept segment.
C7_Witness ==
  pass = 1 /\ pc = "done" /\ img_type = "jpeg" /\ exit = "eoi" /\ Len(output) > 4

TolerantCase ==
  /\ pc = "jpeg"
  /\ \/ Len(data) - pos < 2
     \/ At(data, pos) # 255
     \/ /\ At(data, pos) = 255
        /\ LengthPrefixed(At(data, pos + 1))
        /\ \/ Len(data) - (pos + 2) < 2
           \/ pos + 2 + BE2(data, pos + 3) > Len(data)

\* C9: in each case of tolerant termination the walker stops and returns the
\* output accumulated so far as a success, without raising.
C9_TolerantStop ==
  [][TolerantCase => (pc' = "done" /\ output' = output)]_vars

\* C10: for a well-formed JPEG the output is SOI, the segments before SOS whose
\* marker is on the allow-list, and the input from SOS on; the cursor has moved
\* over every segment and the size drops by the dropped segments.
C10_WellFormedJpeg ==
  \A k \in 1..Len(layout) :
    (pass = 1 /\ pc = "done" /\ SosAt(k))
      => /\ exit = "sos"
         /\ pos = Upto(k)
         /\ output = ExpectedJpeg(k)
         /\ Len(output) = Len(data) - DroppedJpeg(k)

\* C10 witness: a well-formed JPEG with a dropped segment and scan data.
C10_Witness ==
  /\ pass = 1 /\ pc = "done" /\ JpegWellFormed
  /\ Len(output) < Len(data)
  /\ pos < Len(data)
====
